---- MODULE Spec2Model ----
(***************************************************************************)
(* A model of the LLM Council front end: the App component's handlers and  *)
(* stream-event reducer (frontend/src/App.jsx, kept in Stage2.jsx of the   *)
(* source tree), the composer of ChatInterface.jsx, and the text transform *)
(* deAnonymizeText of Stage2.jsx.  The back end that emits the event       *)
(* stream is not part of the source tree; its emitter is modelled from     *)
(* sections 4.7 and 6 of the specification.                                *)
(***************************************************************************)
EXTENDS Integers, Sequences, FiniteSets, Bags, TLC

(***************************************************************************)
(* JavaScript values.  A field that may be null or undefined is a sequence *)
(* of at most one element: Null is the absent value, Some(x) the present   *)
(* one.  OrEmpty is the idiom (x || []).                                   *)
(***************************************************************************)
Null == <<>>

Some(x) == <<x>>

IsNull(o) == o = <<>>

Val(o) == o[1]

OrEmpty(o) == IF IsNull(o) THEN <<>> ELSE Val(o)

Range(s) == {s[i] : i \in 1..Len(s)}

Last(s) == s[Len(s)]

\* Array.prototype.slice(0, -k)
SliceDropLast(s, k) == IF Len(s) <= k THEN <<>> ELSE SubSeq(s, 1, Len(s) - k)

(***************************************************************************)
(* Bounds of the model.                                                    *)
(***************************************************************************)
\* arrival events (stageN_response) delivered per stage
MaxArrivals == 2

\* conversations the user creates with handleNewConversation
MaxNewConvs == 1

\* messages a run dispatches with handleSendMessage
MaxTurns == 1

\* calls of api.getConversation in flight when the user selects a conversation
MaxLoads == 3

(***************************************************************************)
(* The back end's configuration and store (specification sections 3, 6).   *)
(***************************************************************************)
\* the council snapshot of a turn, in its fixed order
Council == <<"m1", "m2">>

Models == Range(Council)

\* "Response A", "Response B", ... assigned over the fixed council order
Labels == <<"Response A", "Response B", "Response C">>

\* the successful answers, in council order, for a set of models
InCouncilOrder(S) == SelectSeq(Council, LAMBDA m : m \in S)

\* the label-to-model map of a list of successful answers
LabelToModel(ok) ==
  [l \in {Labels[i] : i \in 1..Len(ok)} |->
      ok[CHOOSE i \in 1..Len(ok) : Labels[i] = l]]

\* one stage record {model, ...}; the answer text is opaque
Entry(m) == [model |-> m, failed |-> FALSE]

EntriesOf(ms) == [i \in 1..Len(ms) |-> Entry(ms[i])]

ModelsOf(list) == [i \in 1..Len(list) |-> list[i].model]

(***************************************************************************)
(* The aggregation engine (specification section 4.5).  A parsed ranking   *)
(* is the sequence of labels the rank parser found in a critique, best     *)
(* first; a critique that failed or was not parsed has the empty one.      *)
(***************************************************************************)
RECURSIVE SumOf(_)
SumOf(S) ==
  IF S = {} THEN 0
  ELSE LET x == CHOOSE y \in S : TRUE IN x + SumOf(S \ {x})

\* the 1-based positions at which a ranking holds a label
PositionsOf(ranking, label) == {i \in 1..Len(ranking) : ranking[i] = label}

\* (mutant) every ranking counts as a vote, also one without the label
RECURSIVE TallyEveryRanking(_, _)
TallyEveryRanking(rankings, label) ==
  IF rankings = <<>> THEN [sum |-> 0, count |-> 0]
  ELSE LET rest == TallyEveryRanking(Tail(rankings), label)
       IN [sum   |-> rest.sum + SumOf(PositionsOf(Head(rankings), label)),
           count |-> rest.count + 1]

\* the tally of a label over the rankings: the sum of the positions at which
\* it appears and the number of rankings that include it
RECURSIVE Tally(_, _)
Tally(rankings, label) ==
  IF rankings = <<>> THEN [sum |-> 0, count |-> 0]
  ELSE LET rest == Tally(Tail(rankings), label)
           ps   == PositionsOf(Head(rankings), label)
       IN IF ps = {} THEN rest
          ELSE [sum |-> rest.sum + SumOf(ps), count |-> rest.count + 1]

RECURSIVE GCD(_, _)
GCD(a, b) == IF b = 0 THEN a ELSE GCD(b, a % b)

\* the quotient n / d, d > 0, in lowest terms
Fraction(n, d) == [num |-> n \div GCD(n, d), den |-> d \div GCD(n, d)]

\* one leaderboard entry {model, average_rank, rankings_count}
AggregateEntry(model, tally) ==
  [model |-> model, average_rank |-> Fraction(tally.sum, tally.count),
   rankings_count |-> tally.count]

ModelIndex(m) == CHOOSE i \in 1..Len(Council) : Council[i] = m

\* the order of the leaderboard: ascending average position, then vote
\* count descending, then the model identifier ascending
Precedes(e, f) ==
  LET a == e.average_rank.num * f.average_rank.den
      b == f.average_rank.num * e.average_rank.den
  IN \/ a < b
     \/ a = b /\ e.rankings_count > f.rankings_count
     \/ a = b /\ e.rankings_count = f.rankings_count
              /\ ModelIndex(e.model) < ModelIndex(f.model)

RECURSIVE SortEntries(_)
SortEntries(S) ==
  IF S = {} THEN <<>>
  ELSE LET first == CHOOSE e \in S : \A f \in S \ {e} : Precedes(e, f)
       IN <<first>> \o SortEntries(S \ {first})

\* aggregate_rankings: one entry per model whose label is in some ranking
AggregateRankings(rankings, map) ==
  SortEntries({AggregateEntry(map[l], Tally(rankings, l)) :
                 l \in {x \in DOMAIN map : Tally(rankings, x).count > 0}})

\* the ranking of a critique of a turn: in the turns of the App every
\* critique that is parsed ranks the answers in the order of their labels
\* (the rankings of any shape are those of the leaderboard specification)
RankingInLabelOrder(ok) == [i \in 1..Len(ok) |-> Labels[i]]

\* the leaderboard of a turn: ok the stage 1 successes, parsed the models
\* whose critique was parsed
TurnLeaderboard(ok, parsed) ==
  AggregateRankings([i \in 1..Len(parsed) |-> RankingInLabelOrder(ok)],
                    LabelToModel(ok))

\* the chairman's answer stands for what it was made from: the stage 1
\* answers and the leaderboard
Synthesis(ok, board) == [answers |-> ok, leaderboard |-> board]

(***************************************************************************)
(* Messages of a conversation as the UI holds them.                        *)
(***************************************************************************)
\* const userMessage = { role: 'user', content }; images when present
UserMessage(imgs) ==
  [role |-> "user", images |-> IF Len(imgs) > 0 THEN Some(imgs) ELSE Null,
   stage1 |-> Null, stage2 |-> Null, stage3 |-> Null, metadata |-> Null,
   loading |-> Null, stage1PendingModels |-> Null, stage2PendingModels |-> Null]

\* the partial assistant message handleSendMessage appends
AssistantMessage ==
  [role |-> "assistant", images |-> Null,
   stage1 |-> Null, stage2 |-> Null, stage3 |-> Null, metadata |-> Null,
   loading |-> Some([stage1 |-> FALSE, stage2 |-> FALSE, stage3 |-> FALSE]),
   stage1PendingModels |-> Null, stage2PendingModels |-> Null]

\* an assistant message as the store returns it: no loading, no metadata
StoredAssistant(s1, s2, s3) ==
  [role |-> "assistant", images |-> Null,
   stage1 |-> Some(s1), stage2 |-> Some(s2), stage3 |-> Some(s3),
   metadata |-> Null, loading |-> Null,
   stage1PendingModels |-> Null, stage2PendingModels |-> Null]

\* conversation ids: 1 exists at start with one finished turn
ConvIds == 1..(1 + MaxNewConvs)

\* the turn in flight as the emitter holds it: its phase, the conversation it
\* was sent to, the arrival events delivered per stage, the final lists of
\* stage 1 (ok) and stage 2 (ok2), the models of ok2 whose critique the rank
\* parser could parse, whether an arrival event of the stage that is running
\* repeated a model already accumulated, and the data of the latest arrival
\* event of that stage
NoTurn ==
  [phase |-> "idle", conv |-> 0, n1 |-> 0, n2 |-> 0, ok |-> <<>>, ok2 |-> <<>>,
   parsed |-> <<>>, dup |-> FALSE, last |-> Null, images |-> <<>>]

VARIABLES
  conversations,          \* useState([]): the sidebar's list (ids)
  currentConversationId,  \* useState(null)
  currentConversation,    \* useState(null): Null or Some([id, messages])
  isLoading,              \* useState(false)
  crashed,                \* an updater threw: React unmounts the tree
  store,                  \* the back end's conversations: id -> messages
  pendingLoads,           \* api.getConversation calls in flight (a bag of ids)
  pendingLists,           \* api.listConversations calls in flight (a bag of
                          \* the lists they will answer)
  pendingCreates,         \* api.createConversation calls in flight: the new id
                          \* and the conversations of the render of the click
  sends,                  \* messages dispatched so far
  turn,                   \* the stream of the turn in flight
  emitted,                \* the event types the stream has delivered
  \* deAnonymizeText and its arguments
  text,                   \* the text a ranking holds
  labelToModel,           \* Null or Some(entries): Object.entries(labelToModel)
  once,                   \* deAnonymizeText(text, labelToModel), once computed
  twice,                  \* deAnonymizeText(once, labelToModel), once computed
  \* the composer of ChatInterface
  images,                 \* useState([]): the data URLs attached
  addCalls,               \* the addImages calls awaiting processFile
  adds,                   \* addImages calls made so far
  shownMessages,          \* Null (conversation is null) or Some(messages.length)
  isLoadingProp,          \* the isLoading prop
  dispatched,             \* the images of the messages handed to onSendMessage
  \* the aggregation engine
  critiques,              \* the parsed rankings of the stage 2 critiques so far
  leaderboard,            \* Null or Some(aggregate_rankings)
  shownAggregate,         \* Null or Some(rows): what Stage2 renders of it
  recomputed,             \* Null or Some(aggregate_rankings computed again)
  \* the Settings editor
  variant,                \* "panel" (the inline component) or "modal" (onClose)
  config,                 \* useState(null), once api.getConfig has answered
  newModel,               \* useState(''): the text of the add-model input
  error,                  \* useState(null)
  loading,                \* useState(true): api.getConfig is in flight
  saving,                 \* useState(false): api.updateConfig is in flight
  lastCall                \* the handler of the editor the last step called and
                          \* its argument; Null when the step was none

appVars ==
  <<conversations, currentConversationId, currentConversation, isLoading,
    crashed, store, pendingLoads, pendingLists, pendingCreates, sends, turn,
    emitted>>

textVars == <<text, labelToModel, once, twice>>

composerVars ==
  <<images, addCalls, adds, shownMessages, isLoadingProp, dispatched>>

aggVars == <<critiques, leaderboard, shownAggregate, recomputed>>

settingsVars ==
  <<variant, config, newModel, error, loading, saving, lastCall>>

vars == <<appVars, textVars, composerVars, aggVars, settingsVars>>

\* the parts of the state a specification leaves alone
TextIdle ==
  /\ text = <<>>
  /\ labelToModel = Null
  /\ once = Null
  /\ twice = Null

ComposerIdle ==
  /\ images = <<>>
  /\ addCalls = <<>>
  /\ adds = 0
  /\ shownMessages = Null
  /\ isLoadingProp = FALSE
  /\ dispatched = <<>>

SettingsIdle ==
  /\ variant = "panel"
  /\ config = Null
  /\ newModel = <<>>
  /\ error = Null
  /\ loading = TRUE
  /\ saving = FALSE
  /\ lastCall = Null

AggIdle ==
  /\ critiques = <<>>
  /\ leaderboard = Null
  /\ shownAggregate = Null
  /\ recomputed = Null

AppIdle ==
  /\ conversations = <<>>
  /\ currentConversationId = Null
  /\ currentConversation = Null
  /\ isLoading = FALSE
  /\ crashed = FALSE
  /\ store = [id \in ConvIds |-> Null]
  /\ pendingLoads = EmptyBag
  /\ pendingLists = EmptyBag
  /\ pendingCreates = {}
  /\ sends = 0
  /\ turn = NoTurn
  /\ emitted = <<>>

TypeOK ==
  /\ isLoading \in BOOLEAN
  /\ crashed \in BOOLEAN
  /\ BagToSet(pendingLoads) \subseteq ConvIds
  /\ \A c \in pendingCreates : c.id \in ConvIds
  /\ sends \in 0..MaxTurns

(***************************************************************************)
(* The state after the App component has mounted and its mount effect has *)
(* called loadConversations: the sidebar is empty, the call of             *)
(* api.listConversations is in flight, nothing is selected.  The store     *)
(* holds conversation 1, whose one turn finished with the answer of m1     *)
(* alone.                                                                  *)
(***************************************************************************)
StoredTurn(ok) ==
  <<UserMessage(<<>>),
    StoredAssistant(EntriesOf(InCouncilOrder(ok)), EntriesOf(Council),
                    Synthesis(InCouncilOrder(ok),
                              TurnLeaderboard(InCouncilOrder(ok), Council)))>>

\* the ids a store holds, newest first: what api.listConversations returns
StoredIds(st) ==
  SelectSeq([i \in 1..Cardinality(ConvIds) |-> Cardinality(ConvIds) + 1 - i],
            LAMBDA id : ~IsNull(st[id]))

InitStore == [id \in ConvIds |-> IF id = 1 THEN Some(StoredTurn({"m1"})) ELSE Null]

\* loadConversations up to its await: api.listConversations() is called and
\* will answer the ids stored when it was called
LoadConversations(calls, st) == calls (+) SetToBag({StoredIds(st)})

Init ==
  /\ conversations = <<>>
  /\ currentConversationId = Null
  /\ currentConversation = Null
  /\ isLoading = FALSE
  /\ crashed = FALSE
  /\ store = InitStore
  /\ pendingLoads = EmptyBag
  /\ pendingLists = LoadConversations(EmptyBag, InitStore)
  /\ pendingCreates = {}
  /\ sends = 0
  /\ turn = NoTurn
  /\ emitted = <<>>
  /\ TextIdle
  /\ ComposerIdle
  /\ AggIdle
  /\ SettingsIdle

(***************************************************************************)
(* Conversations: the sidebar and the loads.  Every call of the api is in  *)
(* flight from the step that makes it to the step in which its promise     *)
(* settles; other handlers run in between.                                 *)
(***************************************************************************)
\* loadConversations after its await: setConversations(convs)
LoadConversationsResolve ==
  /\ ~crashed
  /\ \E convs \in BagToSet(pendingLists) :
       /\ pendingLists' = pendingLists (-) SetToBag({convs})
       /\ conversations' = convs
  /\ UNCHANGED <<currentConversationId, currentConversation, isLoading, crashed,
                 store, pendingLoads, pendingCreates, sends, turn, emitted>>
  /\ UNCHANGED <<textVars, composerVars, aggVars, settingsVars>>

\* loadConversations, its catch: api.listConversations() rejects
LoadConversationsRejects ==
  /\ ~crashed
  /\ \E convs \in BagToSet(pendingLists) :
       pendingLists' = pendingLists (-) SetToBag({convs})
  /\ UNCHANGED <<conversations, currentConversationId, currentConversation,
                 isLoading, crashed, store, pendingLoads, pendingCreates, sends,
                 turn, emitted>>
  /\ UNCHANGED <<textVars, composerVars, aggVars, settingsVars>>

\* setCurrentConversationId(id) and the effect on currentConversationId:
\* loadConversation(id) calls api.getConversation(id) when the id changed
SelectEffect(id) ==
  /\ currentConversationId' = Some(id)
  /\ pendingLoads' = IF currentConversationId = Some(id) THEN pendingLoads
                     ELSE pendingLoads (+) SetToBag({id})

\* handleNewConversation up to its await: api.createConversation() is called
\* and the store creates the conversation; the closure holds the
\* conversations of this render
HandleNewConversation ==
  /\ ~crashed
  /\ \E id \in ConvIds :
       /\ IsNull(store[id])
       /\ \A j \in ConvIds : j < id => ~IsNull(store[j])
       /\ store' = [store EXCEPT ![id] = Some(<<>>)]
       /\ pendingCreates' =
            pendingCreates \cup {[id |-> id, conversations |-> conversations]}
  /\ UNCHANGED <<conversations, currentConversationId, currentConversation,
                 isLoading, crashed, pendingLoads, pendingLists, sends, turn,
                 emitted>>
  /\ UNCHANGED <<textVars, composerVars, aggVars, settingsVars>>

\* handleNewConversation after its await: the sidebar gets the new
\* conversation in front of the conversations the closure holds, and the new
\* conversation becomes the selected one
CreateConversationResolve ==
  /\ ~crashed
  /\ \E c \in pendingCreates :
       /\ pendingCreates' = pendingCreates \ {c}
       /\ conversations' = <<c.id>> \o c.conversations
       /\ SelectEffect(c.id)
  /\ UNCHANGED <<currentConversation, isLoading, crashed, store, pendingLists,
                 sends, turn, emitted>>
  /\ UNCHANGED <<textVars, composerVars, aggVars, settingsVars>>

\* handleNewConversation, its catch: api.createConversation() rejects
CreateConversationRejects ==
  /\ ~crashed
  /\ \E c \in pendingCreates : pendingCreates' = pendingCreates \ {c}
  /\ UNCHANGED <<conversations, currentConversationId, currentConversation,
                 isLoading, crashed, store, pendingLoads, pendingLists, sends,
                 turn, emitted>>
  /\ UNCHANGED <<textVars, composerVars, aggVars, settingsVars>>

\* handleSelectConversation(id), id an entry of the sidebar
HandleSelectConversation ==
  /\ ~crashed
  /\ BagCardinality(pendingLoads) < MaxLoads
  /\ \E id \in Range(conversations) :
       /\ currentConversationId # Some(id)
       /\ SelectEffect(id)
  /\ UNCHANGED <<conversations, currentConversation, isLoading, crashed, store,
                 pendingLists, pendingCreates, sends, turn, emitted>>
  /\ UNCHANGED <<textVars, composerVars, aggVars, settingsVars>>

\* loadConversation after its await: one call of api.getConversation(id)
\* resolves, whatever is selected by now; setCurrentConversation(conv)
LoadConversationResolve ==
  /\ ~crashed
  /\ \E id \in BagToSet(pendingLoads) :
       /\ pendingLoads' = pendingLoads (-) SetToBag({id})
       /\ currentConversation' = Some([id |-> id, messages |-> Val(store[id])])
  /\ UNCHANGED <<conversations, currentConversationId, isLoading, crashed, store,
                 pendingLists, pendingCreates, sends, turn, emitted>>
  /\ UNCHANGED <<textVars, composerVars, aggVars, settingsVars>>

\* loadConversation, its catch: one call of api.getConversation(id) rejects
LoadConversationRejects ==
  /\ ~crashed
  /\ \E id \in BagToSet(pendingLoads) :
       pendingLoads' = pendingLoads (-) SetToBag({id})
  /\ UNCHANGED <<conversations, currentConversationId, currentConversation,
                 isLoading, crashed, store, pendingLists, pendingCreates, sends,
                 turn, emitted>>
  /\ UNCHANGED <<textVars, composerVars, aggVars, settingsVars>>

(***************************************************************************)
(* handleSendMessage up to the call of api.sendMessageStream.              *)
(***************************************************************************)
\* (mutant) the composer submits while isLoading is true
CanSubmitWhileLoading ==
  /\ ~IsNull(currentConversationId)
  /\ ~IsNull(currentConversation)
  /\ Val(currentConversation).messages = <<>>

\* the composer is rendered and enabled: a conversation is shown, it has no
\* message yet, and no turn is loading
CanSubmit ==
  /\ ~IsNull(currentConversationId)
  /\ ~IsNull(currentConversation)
  /\ Val(currentConversation).messages = <<>>
  /\ ~isLoading

SetMessages(ms) == Some([Val(currentConversation) EXCEPT !.messages = ms])

HandleSendMessage ==
  /\ ~crashed
  /\ CanSubmit
  /\ sends < MaxTurns
  /\ sends' = sends + 1
  /\ \E imgs \in {<<>>, <<"img">>} :
       /\ currentConversation' =
            SetMessages(Val(currentConversation).messages
                          \o <<UserMessage(imgs), AssistantMessage>>)
       /\ turn' = [NoTurn EXCEPT !.phase = "sent",
                                 !.conv = Val(currentConversationId),
                                 !.images = imgs]
  /\ isLoading' = TRUE
  /\ emitted' = <<>>
  /\ UNCHANGED <<conversations, currentConversationId, crashed, store,
                 pendingLoads, pendingLists, pendingCreates>>
  /\ UNCHANGED <<textVars, composerVars, aggVars, settingsVars>>

(***************************************************************************)
(* The event stream of a turn.  The emitter (specification 4.7, 6) moves   *)
(* the turn through its phases; each event it emits is handed to the       *)
(* callback handleSendMessage gave api.sendMessageStream, which folds it   *)
(* into the last message of whatever conversation is shown.                *)
(***************************************************************************)
Running == {"sent", "stage1", "stage1_done", "stage2", "stage2_done", "stage3",
            "stage3_done", "titled"}

\* (mutant) the emitter takes the step from any phase of a running turn
EmitFromAnyPhase(from, type, to) ==
  /\ turn.phase \in Running
  /\ emitted' = Append(emitted, type)
  /\ turn' = [turn EXCEPT !.phase = to]

\* the emitter's step: from phase `from` it emits `type` and enters `to`
Emit(from, type, to) ==
  /\ turn.phase = from
  /\ emitted' = Append(emitted, type)
  /\ turn' = [turn EXCEPT !.phase = to]

\* an arrival event: the phase stays
EmitArrival(stage, type) ==
  /\ turn.phase = stage
  /\ emitted' = Append(emitted, type)

\* the conversation on screen has a last message
HasLast ==
  /\ ~IsNull(currentConversation)
  /\ Val(currentConversation).messages # <<>>

LastMsg == Last(Val(currentConversation).messages)

\* an arrival event that succeeded for a model the shown list already holds
Repeats(list, data) ==
  /\ HasLast
  /\ ~data.failed
  /\ data.model \in Range(ModelsOf(OrEmpty(list)))

\* an updater (prev) => { messages = [...prev.messages]; lastMsg = ...; ... }
\* r gives the last message as the statements left it and whether one of
\* them threw.  messages[messages.length - 1] of an empty list is undefined,
\* and the first statement throws on it.
Reduce(r) ==
  IF ~HasLast
  THEN /\ crashed' = TRUE
       /\ currentConversation' = currentConversation
  ELSE LET ms == Val(currentConversation).messages
       IN /\ currentConversation' = SetMessages([ms EXCEPT ![Len(ms)] = r.msg])
          /\ crashed' = r.threw

Done(m) == [msg |-> m, threw |-> FALSE]

Threw(m) == [msg |-> m, threw |-> TRUE]

SetLoading(m, stage, b) ==
  [m EXCEPT !.loading = Some([Val(m.loading) EXCEPT ![stage] = b])]

\* case 'stage1_start'
OnStage1Start(m, models) ==
  IF IsNull(m.loading) THEN Threw(m)
  ELSE Done([SetLoading(m, "stage1", TRUE) EXCEPT
               !.stage1 = Some(<<>>),
               !.stage1PendingModels = Some(models)])

\* (mutant) the record of every successful arrival event is appended
AccumulateUnchecked(list, data) ==
  IF ~data.failed THEN Some(Append(OrEmpty(list), data)) ELSE list

\* (mutant) the record of an arrival event is appended also when it failed
AccumulateAlsoFailed(list, data) ==
  IF data.model \notin Range(ModelsOf(OrEmpty(list)))
  THEN Some(Append(OrEmpty(list), data))
  ELSE list

\* the list a stageN_response leaves: the event's record appended unless it
\* failed or its model is already present
Accumulate(list, data) ==
  IF ~data.failed /\ data.model \notin Range(ModelsOf(OrEmpty(list)))
  THEN Some(Append(OrEmpty(list), data))
  ELSE list

\* (mutant) a stageN_response leaves the pending list as it was
KeepPending(pending, data) == Some(OrEmpty(pending))

\* the pending list a stageN_response leaves
RemovePending(pending, data) ==
  Some(SelectSeq(OrEmpty(pending), LAMBDA x : x # data.model))

\* case 'stage1_response'
OnStage1Response(m, data) ==
  Done([m EXCEPT !.stage1PendingModels = RemovePending(m.stage1PendingModels, data),
                 !.stage1 = Accumulate(m.stage1, data)])

\* (mutant) the final list is appended to the accumulated one
OnStage1CompleteMerges(m, data) ==
  LET m1 == [m EXCEPT !.stage1 = Some(OrEmpty(m.stage1) \o data)]
  IN IF IsNull(m.loading) THEN Threw(m1)
     ELSE Done([SetLoading(m1, "stage1", FALSE) EXCEPT
                  !.stage1PendingModels = Some(<<>>)])

\* (mutant) the pending list is left as the arrival events left it
OnStage1CompleteKeepsPending(m, data) ==
  LET m1 == [m EXCEPT !.stage1 = Some(data)]
  IN IF IsNull(m.loading) THEN Threw(m1)
     ELSE Done(SetLoading(m1, "stage1", FALSE))

\* case 'stage1_complete'
OnStage1Complete(m, data) ==
  LET m1 == [m EXCEPT !.stage1 = Some(data)]
  IN IF IsNull(m.loading) THEN Threw(m1)
     ELSE Done([SetLoading(m1, "stage1", FALSE) EXCEPT
                  !.stage1PendingModels = Some(<<>>)])

\* { ...lastMsg.metadata, label_to_model }
WithLabelToModel(metadata, map) ==
  IF IsNull(metadata)
  THEN Some([label_to_model |-> Some(map), aggregate_rankings |-> Null])
  ELSE Some([Val(metadata) EXCEPT !.label_to_model = Some(map)])

\* case 'stage2_start'
OnStage2Start(m, models, map) ==
  IF IsNull(m.loading) THEN Threw(m)
  ELSE Done([SetLoading(m, "stage2", TRUE) EXCEPT
               !.stage2 = Some(<<>>),
               !.stage2PendingModels = Some(models),
               !.metadata = WithLabelToModel(m.metadata, map)])

\* case 'stage2_response'
OnStage2Response(m, data) ==
  Done([m EXCEPT !.stage2PendingModels = RemovePending(m.stage2PendingModels, data),
                 !.stage2 = Accumulate(m.stage2, data)])

\* (mutant) only the leaderboard of the event's metadata is kept
OnStage2CompleteDropsMap(m, data, metadata) ==
  LET m1 == [m EXCEPT !.stage2 = Some(data),
                      !.metadata = Some([metadata EXCEPT !.label_to_model = Null])]
  IN IF IsNull(m.loading) THEN Threw(m1)
     ELSE Done([SetLoading(m1, "stage2", FALSE) EXCEPT
                  !.stage2PendingModels = Some(<<>>)])

\* case 'stage2_complete'
OnStage2Complete(m, data, metadata) ==
  LET m1 == [m EXCEPT !.stage2 = Some(data), !.metadata = Some(metadata)]
  IN IF IsNull(m.loading) THEN Threw(m1)
     ELSE Done([SetLoading(m1, "stage2", FALSE) EXCEPT
                  !.stage2PendingModels = Some(<<>>)])

\* (mutant) stage3_start also discards the metadata stage 2 left
OnStage3StartDropsMetadata(m) ==
  IF IsNull(m.loading) THEN Threw(m)
  ELSE Done([SetLoading(m, "stage3", TRUE) EXCEPT !.metadata = Null])

\* case 'stage3_start'
OnStage3Start(m) ==
  IF IsNull(m.loading) THEN Threw(m) ELSE Done(SetLoading(m, "stage3", TRUE))

\* case 'stage3_complete'
OnStage3Complete(m, data) ==
  LET m1 == [m EXCEPT !.stage3 = Some(data)]
  IN IF IsNull(m.loading) THEN Threw(m1) ELSE Done(SetLoading(m1, "stage3", FALSE))

\* the failed flag of an arrival event, and its model: any council model
ArrivalData == [model : Models, failed : BOOLEAN]

\* the metadata of stage2_complete: the map of the turn and the leaderboard
Stage2Metadata(ok, parsed) ==
  [label_to_model |-> Some(LabelToModel(ok)),
   aggregate_rankings |-> Some(TurnLeaderboard(ok, parsed))]

frame == <<conversations, currentConversationId, isLoading, store, pendingLoads,
           pendingLists, pendingCreates, sends>>

Stage1Start ==
  /\ ~crashed
  /\ Emit("sent", "stage1_start", "stage1")
  /\ Reduce(OnStage1Start(LastMsg, Council))
  /\ UNCHANGED frame
  /\ UNCHANGED <<textVars, composerVars, aggVars, settingsVars>>

Stage1Response ==
  /\ ~crashed
  /\ turn.n1 < MaxArrivals
  /\ EmitArrival("stage1", "stage1_response")
  /\ \E data \in ArrivalData :
       /\ turn' = [turn EXCEPT !.n1 = @ + 1,
                               !.dup = @ \/ Repeats(LastMsg.stage1, data),
                               !.last = Some(data)]
       /\ Reduce(OnStage1Response(LastMsg, data))
  /\ UNCHANGED frame
  /\ UNCHANGED <<textVars, composerVars, aggVars, settingsVars>>

\* the final list: the successful answers, any of the council, in its order
Stage1Complete ==
  /\ ~crashed
  /\ turn.phase = "stage1"
  /\ emitted' = Append(emitted, "stage1_complete")
  /\ \E ok \in SUBSET Models :
       /\ turn' = [turn EXCEPT !.phase = "stage1_done", !.ok = InCouncilOrder(ok),
                               !.dup = FALSE, !.last = Null]
       /\ Reduce(OnStage1Complete(LastMsg, EntriesOf(InCouncilOrder(ok))))
  /\ UNCHANGED frame
  /\ UNCHANGED <<textVars, composerVars, aggVars, settingsVars>>

Stage2Start ==
  /\ ~crashed
  /\ Emit("stage1_done", "stage2_start", "stage2")
  /\ Reduce(OnStage2Start(LastMsg, Council, LabelToModel(turn.ok)))
  /\ UNCHANGED frame
  /\ UNCHANGED <<textVars, composerVars, aggVars, settingsVars>>

Stage2Response ==
  /\ ~crashed
  /\ turn.n2 < MaxArrivals
  /\ EmitArrival("stage2", "stage2_response")
  /\ \E data \in ArrivalData :
       /\ turn' = [turn EXCEPT !.n2 = @ + 1,
                               !.dup = @ \/ Repeats(LastMsg.stage2, data),
                               !.last = Some(data)]
       /\ Reduce(OnStage2Response(LastMsg, data))
  /\ UNCHANGED frame
  /\ UNCHANGED <<textVars, composerVars, aggVars, settingsVars>>

\* the final list: the critiques that succeeded, any of the council, and of
\* them those the rank parser could parse (none when stage 1 left no label)
Stage2Complete ==
  /\ ~crashed
  /\ turn.phase = "stage2"
  /\ emitted' = Append(emitted, "stage2_complete")
  /\ \E ok \in SUBSET Models :
       \E parsed \in (IF turn.ok = <<>> THEN {{}} ELSE SUBSET ok) :
         /\ turn' = [turn EXCEPT !.phase = "stage2_done",
                                 !.ok2 = InCouncilOrder(ok),
                                 !.parsed = InCouncilOrder(parsed),
                                 !.dup = FALSE, !.last = Null]
         /\ Reduce(OnStage2Complete(LastMsg, EntriesOf(InCouncilOrder(ok)),
                                    Stage2Metadata(turn.ok, InCouncilOrder(parsed))))
  /\ UNCHANGED frame
  /\ UNCHANGED <<textVars, composerVars, aggVars, settingsVars>>

\* (mutant) stage 3 waits for a leaderboard that has an entry
Stage3StartNeedsRankings ==
  /\ ~crashed
  /\ turn.parsed # <<>>
  /\ Emit("stage2_done", "stage3_start", "stage3")
  /\ Reduce(OnStage3Start(LastMsg))
  /\ UNCHANGED frame
  /\ UNCHANGED <<textVars, composerVars, aggVars, settingsVars>>

Stage3Start ==
  /\ ~crashed
  /\ Emit("stage2_done", "stage3_start", "stage3")
  /\ Reduce(OnStage3Start(LastMsg))
  /\ UNCHANGED frame
  /\ UNCHANGED <<textVars, composerVars, aggVars, settingsVars>>

Stage3Complete ==
  /\ ~crashed
  /\ Emit("stage3", "stage3_complete", "stage3_done")
  /\ Reduce(OnStage3Complete(LastMsg,
                             Synthesis(turn.ok, TurnLeaderboard(turn.ok, turn.parsed))))
  /\ UNCHANGED frame
  /\ UNCHANGED <<textVars, composerVars, aggVars, settingsVars>>

\* case 'title_complete': loadConversations()
TitleComplete ==
  /\ ~crashed
  /\ Emit("stage3_done", "title_complete", "titled")
  /\ pendingLists' = LoadConversations(pendingLists, store)
  /\ UNCHANGED <<conversations, currentConversationId, currentConversation,
                 isLoading, crashed, store, pendingLoads, pendingCreates, sends>>
  /\ UNCHANGED <<textVars, composerVars, aggVars, settingsVars>>

\* the turn as the store keeps it once it has finished
PersistTurn ==
  [store EXCEPT ![turn.conv] =
     Some(OrEmpty(@) \o <<UserMessage(turn.images),
                          StoredAssistant(EntriesOf(turn.ok), EntriesOf(turn.ok2),
                                          Synthesis(turn.ok,
                                                    TurnLeaderboard(turn.ok,
                                                                    turn.parsed)))>>)]

\* case 'complete': loadConversations(); setIsLoading(false)
Complete ==
  /\ ~crashed
  /\ Emit("titled", "complete", "complete")
  /\ store' = PersistTurn
  /\ pendingLists' = LoadConversations(pendingLists, store')
  /\ isLoading' = FALSE
  /\ UNCHANGED <<conversations, currentConversationId, currentConversation,
                 crashed, pendingLoads, pendingCreates, sends>>
  /\ UNCHANGED <<textVars, composerVars, aggVars, settingsVars>>

\* (mutant) the error event is handled as the catch block handles a throw
ErrorEventDiscards ==
  /\ ~crashed
  /\ turn.phase \in Running
  /\ emitted' = Append(emitted, "error")
  /\ turn' = [turn EXCEPT !.phase = "aborted"]
  /\ isLoading' = FALSE
  /\ currentConversation' =
       IF IsNull(currentConversation) THEN currentConversation
       ELSE SetMessages(SliceDropLast(Val(currentConversation).messages, 2))
  /\ UNCHANGED <<conversations, currentConversationId, crashed, store,
                 pendingLoads, pendingLists, pendingCreates, sends>>
  /\ UNCHANGED <<textVars, composerVars, aggVars, settingsVars>>

\* case 'error': setIsLoading(false); the emitter aborts the turn
ErrorEvent ==
  /\ ~crashed
  /\ turn.phase \in Running
  /\ emitted' = Append(emitted, "error")
  /\ turn' = [turn EXCEPT !.phase = "aborted"]
  /\ isLoading' = FALSE
  /\ UNCHANGED <<conversations, currentConversationId, currentConversation,
                 crashed, store, pendingLoads, pendingLists, pendingCreates,
                 sends>>
  /\ UNCHANGED <<textVars, composerVars, aggVars, settingsVars>>

\* api.sendMessageStream rejects: the catch block of handleSendMessage
StreamThrows ==
  /\ ~crashed
  /\ turn.phase \in Running
  /\ turn' = [turn EXCEPT !.phase = "thrown"]
  /\ IF IsNull(currentConversation)
     THEN crashed' = TRUE /\ currentConversation' = currentConversation
     ELSE /\ crashed' = FALSE
          /\ currentConversation' =
               SetMessages(SliceDropLast(Val(currentConversation).messages, 2))
  /\ isLoading' = FALSE
  /\ UNCHANGED <<conversations, currentConversationId, store, pendingLoads,
                 pendingLists, pendingCreates, sends, emitted>>
  /\ UNCHANGED <<textVars, composerVars, aggVars, settingsVars>>

\* api.sendMessageStream resolves though no terminal event was delivered (the
\* stream ended early): the await returns and the try block ends, no
\* statement follows it
StreamReturns ==
  /\ ~crashed
  /\ turn.phase \in Running
  /\ turn' = [turn EXCEPT !.phase = "returned"]
  /\ UNCHANGED <<conversations, currentConversationId, currentConversation,
                 isLoading, crashed, store, pendingLoads, pendingLists,
                 pendingCreates, sends, emitted>>
  /\ UNCHANGED <<textVars, composerVars, aggVars, settingsVars>>

Next ==
  \/ LoadConversationsResolve
  \/ LoadConversationsRejects
  \/ HandleNewConversation
  \/ CreateConversationResolve
  \/ CreateConversationRejects
  \/ HandleSelectConversation
  \/ LoadConversationResolve
  \/ LoadConversationRejects
  \/ HandleSendMessage
  \/ Stage1Start
  \/ Stage1Response
  \/ Stage1Complete
  \/ Stage2Start
  \/ Stage2Response
  \/ Stage2Complete
  \/ Stage3Start
  \/ Stage3Complete
  \/ TitleComplete
  \/ Complete
  \/ ErrorEvent
  \/ StreamThrows
  \/ StreamReturns

Spec == Init /\ [][Next]_vars

\* the call of api.sendMessageStream settles: its stream delivers a terminal
\* event, or the promise resolves or rejects
StreamSettles == Complete \/ ErrorEvent \/ StreamThrows \/ StreamReturns

\* the executions in which every call of api.sendMessageStream settles
SpecLive == Init /\ [][Next]_vars /\ WF_vars(StreamSettles)

(***************************************************************************)
(* Properties of the reducer (specification Spec).                         *)
(***************************************************************************)
\* the last message on screen is the partial assistant message of the turn
\* in flight: only that message carries the loading flags
TurnShown ==
  /\ turn.phase # "idle"
  /\ HasLast
  /\ ~IsNull(LastMsg.loading)

\* the step hands one stream event of the given type to the callback
Delivers(type) ==
  /\ sends' = sends
  /\ emitted' = Append(emitted, type)

DeliversAny == sends' = sends /\ Len(emitted') = Len(emitted) + 1

NoDup(seq) == \A i, j \in 1..Len(seq) : seq[i] = seq[j] => i = j

\* s is t with some elements left out, the order kept
IsFiltered(s, t) ==
  \E keep \in SUBSET Range(t) : s = SelectSeq(t, LAMBDA x : x \in keep)

Stage1Converged ==
  /\ LastMsg'.stage1 = Some(EntriesOf(turn'.ok))
  /\ LastMsg'.stage1PendingModels = Some(<<>>)
  /\ Val(LastMsg'.loading).stage1 = FALSE

Stage2Converged ==
  /\ LastMsg'.stage2 = Some(EntriesOf(turn'.ok2))
  /\ LastMsg'.stage2PendingModels = Some(<<>>)
  /\ Val(LastMsg'.loading).stage2 = FALSE

\* C1: reducer convergence.  Whatever arrival events were folded into the
\* turn's message after stageN_start (lost, repeated, failed, in any order),
\* handling stageN_complete leaves the message's stageN list equal to the
\* event's data, the stage's pending list empty and its loading flag false.
C1_Convergence ==
  [][/\ (TurnShown /\ Delivers("stage1_complete")) => Stage1Converged
     /\ (TurnShown /\ Delivers("stage2_complete")) => Stage2Converged]_vars

\* one arrival event was delivered, the final list holds every council model:
\* the list is the event's, not the one accumulated
C1_Witness ==
  /\ TurnShown
  /\ emitted = <<"stage1_start", "stage1_response", "stage1_complete">>
  /\ LastMsg.stage1 = Some(EntriesOf(Council))
  /\ LastMsg.stage1PendingModels = Some(<<>>)

\* C2: duplicate-safety.  While a stage is between its start and its
\* completion event, the list accumulated for it holds at most one record
\* per model.
C2_AtMostOnePerModel ==
  /\ (turn.phase = "stage1" /\ HasLast) => NoDup(ModelsOf(OrEmpty(LastMsg.stage1)))
  /\ (turn.phase = "stage2" /\ HasLast) => NoDup(ModelsOf(OrEmpty(LastMsg.stage2)))

\* a successful arrival event came for a model the list already held
C2_Witness ==
  /\ TurnShown
  /\ turn.phase = "stage1"
  /\ turn.dup
  /\ Len(OrEmpty(LastMsg.stage1)) = 1

\* the conversation on screen was loaded after the turn was sent: its last
\* message is not the turn's partial message
Abandoned ==
  /\ turn.phase # "idle"
  /\ ~IsNull(currentConversation)
  /\ ~TurnShown

\* the stage results a message shows
Results(m) == <<m.stage1, m.stage2, m.stage3, m.metadata>>

ShownResults(conv) ==
  [i \in 1..Len(Val(conv).messages) |-> Results(Val(conv).messages[i])]

\* C3: turn abandonment.  A stream event of a turn whose conversation is no
\* longer the one on screen changes no stage result of any message of the
\* conversation shown.
C3_AbandonedEventsIgnored ==
  [][(Abandoned /\ HasLast /\ DeliversAny)
       => ShownResults(currentConversation') = ShownResults(currentConversation)]_vars

PendingOf(m, stage) ==
  IF stage = 1 THEN m.stage1PendingModels ELSE m.stage2PendingModels

Started(stage) ==
  IF stage = 1 THEN "stage1_start" \in Range(emitted)
  ELSE "stage2_start" \in Range(emitted)

Completed(stage) ==
  IF stage = 1 THEN "stage1_complete" \in Range(emitted)
  ELSE "stage2_complete" \in Range(emitted)

\* C4 as stated, its second half: once a stage has started, its pending list
\* is empty exactly when its completion event has been handled.
C4_EmptyExactlyAtCompletion ==
  \A stage \in {1, 2} :
    (TurnShown /\ Started(stage)) =>
      (OrEmpty(PendingOf(LastMsg, stage)) = <<>> <=> Completed(stage))

\* C4 (amended): after the start event of a stage the pending list only
\* loses models, an arrival event removes at most one, and once the
\* completion event has been handled the list is empty; it may be empty
\* before that, when every announced model has reported.
C4_PendingShrinks ==
  [][\A stage \in {1, 2} :
       (TurnShown /\ TurnShown' /\ Started(stage) /\ sends' = sends) =>
         /\ IsFiltered(OrEmpty(PendingOf(LastMsg', stage)),
                       OrEmpty(PendingOf(LastMsg, stage)))
         /\ (Delivers("stage1_response") \/ Delivers("stage2_response")) =>
              Len(OrEmpty(PendingOf(LastMsg, stage)))
                <= Len(OrEmpty(PendingOf(LastMsg', stage))) + 1
         /\ Completed(stage)' => OrEmpty(PendingOf(LastMsg', stage)) = <<>>]_vars

\* every model has reported and the completion event is still to come
C4_Witness ==
  /\ TurnShown
  /\ turn.phase = "stage1"
  /\ turn.n1 = 2
  /\ LastMsg.stage1PendingModels = Some(<<>>)
  /\ Len(OrEmpty(LastMsg.stage1)) = 1

\* C7: handling an error event leaves every message, and with it the stage
\* results streamed so far, as it was.
C7_ErrorKeepsResults ==
  [][Delivers("error") => currentConversation' = currentConversation]_vars

\* the turn was aborted during stage 2 and its stage 1 answers are on screen
C7_Witness ==
  /\ TurnShown
  /\ turn.phase = "aborted"
  /\ "stage2_start" \in Range(emitted)
  /\ Len(OrEmpty(LastMsg.stage1)) = 2
  /\ ~isLoading

LabelMapOf(m) == Val(m.metadata).label_to_model

MapRecorded ==
  /\ TurnShown
  /\ ~IsNull(LastMsg.metadata)
  /\ ~IsNull(LabelMapOf(LastMsg))

Injective(f) == \A a, b \in DOMAIN f : f[a] = f[b] => a = b

\* C8: the label-to-model map the turn's message holds has one entry per
\* successful stage 1 answer, maps distinct labels to distinct models, and
\* from stage2_start on is the same map in every state of the turn.
C8_LabelMapFixed ==
  [][/\ (TurnShown' /\ "stage2_start" \in Range(emitted') /\ sends' = sends) =>
          /\ MapRecorded'
          /\ Cardinality(DOMAIN Val(LabelMapOf(LastMsg'))) = Len(turn'.ok)
          /\ Injective(Val(LabelMapOf(LastMsg')))
          /\ {Val(LabelMapOf(LastMsg'))[l] : l \in DOMAIN Val(LabelMapOf(LastMsg'))}
               = Range(turn'.ok)
     /\ (MapRecorded /\ TurnShown' /\ sends' = sends) =>
          /\ MapRecorded'
          /\ LabelMapOf(LastMsg') = LabelMapOf(LastMsg)]_vars

\* stage2_complete has replaced the metadata and the two-entry map is there
C8_Witness ==
  /\ MapRecorded
  /\ "stage2_complete" \in Range(emitted)
  /\ ~IsNull(Val(LastMsg.metadata).aggregate_rankings)
  /\ Cardinality(DOMAIN Val(LabelMapOf(LastMsg))) = 2

Before(a, b) ==
  \A i \in 1..Len(emitted) :
    emitted[i] = b => \E j \in 1..(i - 1) : emitted[j] = a

\* C10: in the event sequence of a turn stage2_start comes only after
\* stage1_complete, stage3_start only after stage2_complete, and nothing
\* follows a complete or an error event.
C10_Sequential ==
  /\ Before("stage1_complete", "stage2_start")
  /\ Before("stage2_complete", "stage3_start")
  /\ \A i \in 1..(Len(emitted) - 1) : emitted[i] \notin {"complete", "error"}

C10_Witness ==
  /\ turn.phase = "complete"
  /\ Last(emitted) = "complete"
  /\ "stage3_start" \in Range(emitted)

ListOf(m, stage) == IF stage = 1 THEN m.stage1 ELSE m.stage2

\* the step hands the callback an arrival event of the stage that failed
DeliversFailed(stage) ==
  /\ Delivers(IF stage = 1 THEN "stage1_response" ELSE "stage2_response")
  /\ Val(turn'.last).failed

\* C13: an arrival event with failed: true for model m leaves the stage's
\* pending list as it was but without m, and leaves the stage's accumulated
\* list as it was: no entry is recorded for m.
C13_FailedArrival ==
  [][\A stage \in {1, 2} :
       (TurnShown /\ DeliversFailed(stage)) =>
         /\ ListOf(LastMsg', stage) = ListOf(LastMsg, stage)
         /\ OrEmpty(PendingOf(LastMsg', stage))
              = SelectSeq(OrEmpty(PendingOf(LastMsg, stage)),
                          LAMBDA x : x # Val(turn'.last).model)]_vars

\* stage1_start{m1, m2}, stage1_response{m1}, stage1_response{m2, failed}:
\* nothing is pending and the list holds the one answer, of m1
C13_Witness ==
  /\ TurnShown
  /\ emitted = <<"stage1_start", "stage1_response", "stage1_response">>
  /\ turn.last = Some([model |-> "m2", failed |-> TRUE])
  /\ LastMsg.stage1PendingModels = Some(<<>>)
  /\ ModelsOf(OrEmpty(LastMsg.stage1)) = <<"m1">>

\* stage 2 of the turn is over and it left no ranking to aggregate: every
\* critique failed or was not parsed
NoUsableRanking ==
  /\ "stage2_complete" \in Range(emitted)
  /\ turn.parsed = <<>>

\* C12: stage 3 is never skipped.  When stage 2 ends without a usable
\* ranking, the leaderboard the turn's message gets is the empty list, the
\* emitter can go on to stage3_start and from there to stage3_complete, and
\* the answer stage3_complete carries is made from the stage 1 answers and
\* the empty leaderboard.
C12_Stage3NeverSkipped ==
  /\ (NoUsableRanking /\ TurnShown) =>
       Val(LastMsg.metadata).aggregate_rankings = Some(<<>>)
  /\ (NoUsableRanking /\ turn.phase = "stage2_done" /\ ~crashed) =>
       ENABLED Stage3Start
  /\ (NoUsableRanking /\ turn.phase = "stage3" /\ ~crashed) =>
       ENABLED Stage3Complete
  /\ (NoUsableRanking /\ TurnShown /\ "stage3_complete" \in Range(emitted)) =>
       LastMsg.stage3 = Some(Synthesis(turn.ok, <<>>))

\* both critiques arrived, neither was parsed, and stage 3 has answered from
\* the two stage 1 answers
C12_Witness ==
  /\ TurnShown
  /\ NoUsableRanking
  /\ Len(turn.ok) = 2
  /\ Len(turn.ok2) = 2
  /\ "stage3_complete" \in Range(emitted)
  /\ Val(LastMsg.metadata).aggregate_rankings = Some(<<>>)
  /\ LastMsg.stage3 = Some(Synthesis(Council, <<>>))

\* the step is the catch block of handleSendMessage
Catches == turn.phase \in Running /\ turn'.phase = "thrown"

\* the messages on screen without the two handleSendMessage appended for the
\* turn, when they are there
WithoutOptimistic ==
  IF TurnShown THEN SliceDropLast(Val(currentConversation).messages, 2)
  ELSE Val(currentConversation).messages

\* C17: when api.sendMessageStream throws, the catch block leaves the
\* conversation on screen with the messages it had before the send (the
\* optimistic user message and the partial assistant message are removed and
\* nothing else is) and isLoading false, also when the conversation on
\* screen was changed while the send was in flight.
C17_CatchRestoresMessages ==
  [][(Catches /\ ~IsNull(currentConversation)) =>
       /\ ~isLoading'
       /\ ~crashed'
       /\ Val(currentConversation').messages = WithoutOptimistic]_vars

\* C18: at most one turn is in flight.  From the dispatch of a message to the
\* turn's complete or error event or the throw of the stream, isLoading is
\* true and the chat input cannot dispatch another message.
C18_OneTurnInFlight ==
  turn.phase \in Running => (isLoading /\ ~CanSubmit)

\* a turn is in stage 2 and the conversation on screen has no message (its
\* composer is rendered): only isLoading keeps it from sending
C18_Witness ==
  /\ turn.phase = "stage2"
  /\ ~crashed
  /\ ~IsNull(currentConversation)
  /\ Val(currentConversation).messages = <<>>
  /\ isLoading

\* the turn's message shows a stage as running: a loading flag is true or
\* a model is pending
ShowsStageRunning ==
  \/ Val(LastMsg.loading).stage1
  \/ Val(LastMsg.loading).stage2
  \/ Val(LastMsg.loading).stage3
  \/ OrEmpty(LastMsg.stage1PendingModels) # <<>>
  \/ OrEmpty(LastMsg.stage2PendingModels) # <<>>

\* C20: once the complete or the error event of a turn has been handled,
\* the turn's message shows no stage as running, whatever events came
\* before it.
C20_TerminalClearsLoading ==
  (TurnShown /\ turn.phase \in {"complete", "aborted"}) => ~ShowsStageRunning

\* C21: every send eventually releases the UI.  Once handleSendMessage has
\* set isLoading to true, in every execution in which the call of
\* api.sendMessageStream settles (a terminal event, a return or a throw),
\* isLoading becomes false again; the executions in which an updater threw and
\* React unmounted the tree are left aside.
C21_EventuallyReleased ==
  (isLoading /\ ~crashed) ~> (~isLoading \/ crashed)

\* the stream events of the three stages, by stage
StageEvents ==
  [e \in {"stage1_start", "stage1_response", "stage1_complete",
           "stage2_start", "stage2_response", "stage2_complete",
           "stage3_start", "stage3_complete"} |->
     IF e \in {"stage1_start", "stage1_response", "stage1_complete"} THEN 1
     ELSE IF e \in {"stage3_start", "stage3_complete"} THEN 3 ELSE 2]

\* the fields of a message that the events of a stage leave alone: the
\* results of the other stages, and the metadata unless the stage is stage 2
OtherStages(m, stage) ==
  CASE stage = 1 -> <<m.stage2, m.stage3, m.metadata>>
    [] stage = 2 -> <<m.stage1, m.stage3>>
    [] stage = 3 -> <<m.stage1, m.stage2, m.metadata>>

AllButLast(ms) == SliceDropLast(ms, 1)

\* C22: a stream event of a stage changes only the last message of the
\* conversation on screen.  The conversation keeps its id and its number of
\* messages, every message but the last is unchanged, the sidebar, the
\* selection and isLoading are unchanged, and in the last message the results
\* of the other stages are unchanged (stage-1 and stage-3 events also leave the
\* metadata alone).
C22_HandlersFrame ==
  [][\A e \in DOMAIN StageEvents :
       Delivers(e) =>
         /\ UNCHANGED <<conversations, currentConversationId, isLoading>>
         /\ IsNull(currentConversation') = IsNull(currentConversation)
         /\ ~IsNull(currentConversation) =>
              /\ Val(currentConversation').id = Val(currentConversation).id
              /\ Len(Val(currentConversation').messages)
                   = Len(Val(currentConversation).messages)
              /\ AllButLast(Val(currentConversation').messages)
                   = AllButLast(Val(currentConversation).messages)
         /\ HasLast =>
              OtherStages(LastMsg', StageEvents[e])
                = OtherStages(LastMsg, StageEvents[e])]_vars

\* stage3_start has been handled on the turn's message, which follows the
\* user's message: both lists and the metadata of stage 2 are still there
C22_Witness ==
  /\ TurnShown
  /\ Len(emitted) > 0
  /\ Last(emitted) = "stage3_start"
  /\ Len(Val(currentConversation).messages) = 2
  /\ Val(currentConversation).messages[1].role = "user"
  /\ Val(LastMsg.loading).stage3
  /\ OrEmpty(LastMsg.stage1) # <<>>
  /\ OrEmpty(LastMsg.stage2) # <<>>
  /\ ~IsNull(LastMsg.metadata)

\* Stage1 and Stage2 render the counter (done/total) in the title while
\* isLoading && pendingModels.length > 0
CounterShown(m, stage) ==
  /\ ~IsNull(m.loading)
  /\ Val(m.loading)[IF stage = 1 THEN "stage1" ELSE "stage2"]
  /\ Len(OrEmpty(PendingOf(m, stage))) > 0

\* responses.length + pendingModels.length
CounterTotal(m, stage) ==
  Len(OrEmpty(ListOf(m, stage))) + Len(OrEmpty(PendingOf(m, stage)))

\* C24: while a stage is loading and its counter is shown, the counter's
\* total is the number of models the stage's start event announced, whatever
\* arrival events, successful or failed, have been handled since.
C24_CounterTotal ==
  \A stage \in {1, 2} :
    (TurnShown /\ CounterShown(LastMsg, stage)) =>
      CounterTotal(LastMsg, stage) = Len(Council)

(***************************************************************************)
(* The stream callback under any order of events.  The callback of         *)
(* handleSendMessage does not look at what it was handed before: each case *)
(* is applied to the last message as it finds it.  A message has been      *)
(* sent in conversation 2; the events of stages 1 and 2 then reach the     *)
(* callback in any order, while conversation 2 is on screen or after the   *)
(* user went back to conversation 1.                                       *)
(***************************************************************************)
\* events handed to the callback
MaxEvents == 4

\* event.models of a start event: any prefix of the council
AnnouncedLists == {SubSeq(Council, 1, n) : n \in 0..Len(Council)}

SentStore == [InitStore EXCEPT ![2] = Some(<<>>)]

InitAnyOrder ==
  /\ conversations = StoredIds(SentStore)
  /\ store = SentStore
  /\ \E shown \in {1, 2} :
       /\ currentConversationId = Some(shown)
       /\ currentConversation =
            Some([id |-> shown,
                  messages |-> IF shown = 2
                               THEN <<UserMessage(<<>>), AssistantMessage>>
                               ELSE Val(SentStore[1])])
  /\ isLoading = TRUE
  /\ crashed = FALSE
  /\ pendingLoads = EmptyBag
  /\ pendingLists = EmptyBag
  /\ pendingCreates = {}
  /\ sends = 1
  /\ turn = [NoTurn EXCEPT !.phase = "sent", !.conv = 2]
  /\ emitted = <<>>
  /\ TextIdle
  /\ ComposerIdle
  /\ AggIdle
  /\ SettingsIdle

\* the callback is handed an event of the given type
Handed(type) ==
  /\ ~crashed
  /\ Len(emitted) < MaxEvents
  /\ emitted' = Append(emitted, type)
  /\ UNCHANGED <<frame, turn>>
  /\ UNCHANGED <<textVars, composerVars, aggVars, settingsVars>>

AnyStage1Start ==
  /\ Handed("stage1_start")
  /\ \E models \in AnnouncedLists : Reduce(OnStage1Start(LastMsg, models))

AnyStage1Response ==
  /\ Handed("stage1_response")
  /\ \E data \in ArrivalData : Reduce(OnStage1Response(LastMsg, data))

AnyStage1Complete ==
  /\ Handed("stage1_complete")
  /\ \E ok \in SUBSET Models :
       Reduce(OnStage1Complete(LastMsg, EntriesOf(InCouncilOrder(ok))))

AnyStage2Start ==
  /\ Handed("stage2_start")
  /\ \E models \in AnnouncedLists :
       Reduce(OnStage2Start(LastMsg, models, LabelToModel(Council)))

AnyStage2Response ==
  /\ Handed("stage2_response")
  /\ \E data \in ArrivalData : Reduce(OnStage2Response(LastMsg, data))

AnyStage2Complete ==
  /\ Handed("stage2_complete")
  /\ \E ok \in SUBSET Models :
       Reduce(OnStage2Complete(LastMsg, EntriesOf(InCouncilOrder(ok)),
                               Stage2Metadata(Council, InCouncilOrder(ok))))

NextAnyOrder ==
  \/ AnyStage1Start
  \/ AnyStage1Response
  \/ AnyStage1Complete
  \/ AnyStage2Start
  \/ AnyStage2Response
  \/ AnyStage2Complete

SpecAnyOrder == InitAnyOrder /\ [][NextAnyOrder]_vars

\* the models a stage's pending list and accumulated list of a message share
InBoth(m, stage) ==
  Range(OrEmpty(PendingOf(m, stage)))
    \cap Range(ModelsOf(OrEmpty(ListOf(m, stage))))

\* C23: in every state of a turn and for each stage, no model is at once in
\* the stage's pending list and in the stage's accumulated list, whatever the
\* order in which the stage's start, arrival and completion events reach the
\* callback.
C23_PendingDisjoint ==
  HasLast => \A stage \in {1, 2} : InBoth(LastMsg, stage) = {}

\* an answer of m1 arrived before stage1_start announced m1 and m2, and again
\* after it: m1 is in the list and only m2 is pending
C23_Witness ==
  /\ emitted = <<"stage1_response", "stage1_start", "stage1_response">>
  /\ HasLast
  /\ ModelsOf(OrEmpty(LastMsg.stage1)) = <<"m1">>
  /\ LastMsg.stage1PendingModels = Some(<<"m2">>)

(***************************************************************************)
(* deAnonymizeText (Stage2.jsx).  A string is a sequence of tokens; the    *)
(* token "Response " is the prefix every label starts with, "/" separates  *)
(* the provider from the model name.                                       *)
(***************************************************************************)
\* longest text tried
MaxTextLen == 3

TextTokens == {"Response ", "A", "B", "x"}

Texts == UNION {[1..n -> TextTokens] : n \in 0..MaxTextLen}

Label(letter) == <<"Response ", letter>>

\* model identifiers: provider/name, a bare name, a provider with no name,
\* and a local model called "Response Bot"
ModelNames ==
  {<<"o", "/", "g">>, <<"g">>, <<"o", "/">>, <<"local", "/", "Response ", "B", "ot">>}

\* Object.entries of the maps a turn can hold: labels are given out from
\* "Response A" on, to distinct models
EntryLists ==
  {<<>>}
    \cup {<<[label |-> Label("A"), model |-> m]>> : m \in ModelNames}
    \cup {<<[label |-> Label("A"), model |-> p[1]], [label |-> Label("B"), model |-> p[2]]>> :
            p \in {q \in ModelNames \X ModelNames : q[1] # q[2]}}

\* model.split('/')[1]: the part between the first and the second "/",
\* undefined (Null) when the model holds no "/"
SplitSecond(model) ==
  IF "/" \notin Range(model) THEN Null
  ELSE LET i    == CHOOSE k \in 1..Len(model) :
                     model[k] = "/" /\ \A j \in 1..(k - 1) : model[j] # "/"
           rest == SubSeq(model, i + 1, Len(model))
           n    == IF "/" \in Range(rest)
                   THEN (CHOOSE k \in 1..Len(rest) :
                           rest[k] = "/" /\ \A j \in 1..(k - 1) : rest[j] # "/") - 1
                   ELSE Len(rest)
       IN Some(SubSeq(rest, 1, n))

\* model.split('/')[1] || model
ShortName(model) ==
  IF IsNull(SplitSecond(model)) \/ Val(SplitSecond(model)) = <<>> THEN model
  ELSE Val(SplitSecond(model))

\* `**${modelShortName}**`
Bold(name) == <<"**">> \o name \o <<"**">>

\* result.replace(new RegExp(label, 'g'), replacement): every match of the
\* label, found from left to right, none overlapping an earlier one
RECURSIVE ReplaceAll(_, _, _)
ReplaceAll(t, label, replacement) ==
  IF Len(t) < Len(label) THEN t
  ELSE IF SubSeq(t, 1, Len(label)) = label
       THEN replacement \o ReplaceAll(SubSeq(t, Len(label) + 1, Len(t)), label, replacement)
       ELSE <<Head(t)>> \o ReplaceAll(Tail(t), label, replacement)

\* Object.entries(labelToModel).forEach(...): one replace after the other
RECURSIVE ReplaceEach(_, _)
ReplaceEach(result, entries) ==
  IF entries = <<>> THEN result
  ELSE ReplaceEach(ReplaceAll(result, Head(entries).label,
                              Bold(ShortName(Head(entries).model))),
                   Tail(entries))

deAnonymizeText(t, map) == IF IsNull(map) THEN t ELSE ReplaceEach(t, Val(map))

InitText ==
  /\ text \in Texts
  /\ labelToModel \in {Null} \cup {Some(e) : e \in EntryLists}
  /\ once = Null
  /\ twice = Null
  /\ AppIdle
  /\ ComposerIdle
  /\ AggIdle
  /\ SettingsIdle

\* Stage2 renders the ranking: deAnonymizeText(currentRanking.ranking, labelToModel)
Render ==
  /\ IsNull(once)
  /\ once' = Some(deAnonymizeText(text, labelToModel))
  /\ UNCHANGED <<text, labelToModel, twice, appVars, composerVars, aggVars, settingsVars>>

\* the transform applied to its own result
RenderAgain ==
  /\ ~IsNull(once)
  /\ IsNull(twice)
  /\ twice' = Some(deAnonymizeText(Val(once), labelToModel))
  /\ UNCHANGED <<text, labelToModel, once, appVars, composerVars, aggVars, settingsVars>>

NextText ==
  \/ Render
  \/ RenderAgain

SpecText == InitText /\ [][NextText]_vars

\* C5: de-anonymization is idempotent: applied to its own result, with the
\* same map, it gives that result again.
C5_Idempotent == ~IsNull(twice) => Val(twice) = Val(once)

\* the labels of the map replaced where they stand in the original text, in
\* one pass from left to right, and nothing else changed
RECURSIVE SubstituteLabels(_, _)
SubstituteLabels(t, entries) ==
  IF t = <<>> THEN <<>>
  ELSE LET hits == {i \in 1..Len(entries) :
                      /\ Len(entries[i].label) <= Len(t)
                      /\ SubSeq(t, 1, Len(entries[i].label)) = entries[i].label}
       IN IF hits = {} THEN <<Head(t)>> \o SubstituteLabels(Tail(t), entries)
          ELSE LET e == entries[CHOOSE i \in hits : TRUE]
               IN Bold(ShortName(e.model))
                    \o SubstituteLabels(SubSeq(t, Len(e.label) + 1, Len(t)), entries)

\* C6: deAnonymizeText replaces every occurrence of each label in the
\* original text by the bold short name of its model and changes nothing
\* else: what one label was replaced by is not replaced again for a later
\* label, and a text without a label comes back unchanged.
C6_EveryOccurrenceOnce ==
  ~IsNull(once) =>
    Val(once) = SubstituteLabels(text, OrEmpty(labelToModel))

(***************************************************************************)
(* The composer of ChatInterface: the attached images.                     *)
(***************************************************************************)
\* Max images per message
MAX_IMAGES == 4

\* files of one selection or paste
MaxFiles == 3

\* addImages calls of a run
MaxAddCalls == 2

\* messages the composer hands to onSendMessage in a run
MaxSubmits == 2

\* messages of the longest conversation the parent shows
MaxShown == 4

\* the form is rendered: a conversation is shown (with none, the welcome
\* screen is all there is) and conversation.messages.length === 0
FormShown == shownMessages = Some(0)

\* ChatInterface as the App mounts it: conversation is null
InitComposer ==
  /\ images = <<>>
  /\ addCalls = <<>>
  /\ adds = 0
  /\ shownMessages = Null
  /\ isLoadingProp = FALSE
  /\ dispatched = <<>>
  /\ AppIdle
  /\ TextIdle
  /\ AggIdle
  /\ SettingsIdle

\* an addImages call: c.seen is images.length of the render whose addImages
\* was called, c.left the files not yet looked at, c.new newImages.
\* The for loop is over when no file is left, and breaks (with the alert)
\* when images.length + newImages.length >= MAX_IMAGES
LoopEnds(c) == c.left = 0 \/ c.seen + Len(c.new) >= MAX_IMAGES

\* if (newImages.length > 0) setImages((prev) => [...prev, ...newImages])
SetImagesAfter(c) == IF Len(c.new) > 0 THEN images \o c.new ELSE images

\* handleFileSelect / handlePaste with n files: addImages(files) runs to
\* its first await
AddImages ==
  /\ FormShown
  /\ ~isLoadingProp
  /\ adds < MaxAddCalls
  /\ adds' = adds + 1
  /\ \E n \in 1..MaxFiles :
       LET c == [seen |-> Len(images), left |-> n, new |-> <<>>]
       IN IF LoopEnds(c)
          THEN images' = SetImagesAfter(c) /\ addCalls' = addCalls
          ELSE images' = images /\ addCalls' = Append(addCalls, c)
  /\ UNCHANGED <<shownMessages, isLoadingProp, dispatched, appVars, textVars,
                 aggVars, settingsVars>>

DropCall(k) ==
  [i \in 1..(Len(addCalls) - 1) |-> IF i < k THEN addCalls[i] ELSE addCalls[i + 1]]

\* processFile of an awaiting call settles: the data URL is pushed, or the
\* error is alerted; then the loop goes on to its next await or to its end
FileSettles ==
  /\ \E k \in 1..Len(addCalls), ok \in BOOLEAN :
       LET c  == addCalls[k]
           c1 == [c EXCEPT !.left = @ - 1,
                           !.new = IF ok THEN Append(@, "img") ELSE @]
       IN IF LoopEnds(c1)
          THEN images' = SetImagesAfter(c1) /\ addCalls' = DropCall(k)
          ELSE images' = images /\ addCalls' = [addCalls EXCEPT ![k] = c1]
  /\ UNCHANGED <<adds, shownMessages, isLoadingProp, dispatched, appVars,
                 textVars, aggVars, settingsVars>>

\* removeImage(index)
RemoveImage ==
  /\ FormShown
  /\ \E index \in 1..Len(images) :
       images' = [i \in 1..(Len(images) - 1) |->
                    IF i < index THEN images[i] ELSE images[i + 1]]
  /\ UNCHANGED <<addCalls, adds, shownMessages, isLoadingProp, dispatched,
                 appVars, textVars, aggVars, settingsVars>>

\* handleSubmit: onSendMessage(input, images); setImages([]).  The parent
\* sets isLoading and appends the user message and the partial assistant
\* message to the conversation shown
HandleSubmit ==
  /\ FormShown
  /\ ~isLoadingProp
  /\ Len(dispatched) < MaxSubmits
  /\ dispatched' = Append(dispatched, Len(images))
  /\ images' = <<>>
  /\ isLoadingProp' = TRUE
  /\ shownMessages' = Some(Val(shownMessages) + 2)
  /\ UNCHANGED <<addCalls, adds, appVars, textVars, aggVars, settingsVars>>

\* the parent ends the turn: isLoading is false again
TurnEnds ==
  /\ isLoadingProp
  /\ isLoadingProp' = FALSE
  /\ UNCHANGED <<images, addCalls, adds, shownMessages, dispatched, appVars,
                 textVars, aggVars, settingsVars>>

\* the parent shows a conversation without messages
EmptyConversationShown ==
  /\ ~FormShown
  /\ shownMessages' = Some(0)
  /\ UNCHANGED <<images, addCalls, adds, isLoadingProp, dispatched, appVars,
                 textVars, aggVars, settingsVars>>

\* the parent shows a conversation that has messages (a stored one is
\* selected and loaded): the form is not rendered, the images stay
ConversationWithMessagesShown ==
  /\ \E n \in 1..MaxShown :
       /\ Some(n) # shownMessages
       /\ shownMessages' = Some(n)
  /\ UNCHANGED <<images, addCalls, adds, isLoadingProp, dispatched, appVars,
                 textVars, aggVars, settingsVars>>

\* Array.prototype.slice(0, -2) of a list of n elements: its length
SliceLastTwo(n) == IF n > 2 THEN n - 2 ELSE 0

\* api.sendMessageStream rejects: the parent's catch block takes the last
\* two messages of the conversation shown away and sets isLoading to false,
\* in one update.  The form is back only when no message is left.  A turn
\* in flight was sent from a form, so a conversation is shown
StreamRejects ==
  /\ isLoadingProp
  /\ ~IsNull(shownMessages)
  /\ isLoadingProp' = FALSE
  /\ shownMessages' = Some(SliceLastTwo(Val(shownMessages)))
  /\ UNCHANGED <<images, addCalls, adds, dispatched, appVars, textVars, aggVars,
                 settingsVars>>

NextComposer ==
  \/ AddImages
  \/ FileSettles
  \/ RemoveImage
  \/ HandleSubmit
  \/ TurnEnds
  \/ EmptyConversationShown
  \/ ConversationWithMessagesShown
  \/ StreamRejects

SpecComposer == InitComposer /\ [][NextComposer]_vars

\* C9: the composer never holds more than MAX_IMAGES images, and no message
\* is dispatched with more.
C9_AtMostMaxImages ==
  /\ Len(images) <= MAX_IMAGES
  /\ \A i \in 1..Len(dispatched) : dispatched[i] <= MAX_IMAGES

(***************************************************************************)
(* The leaderboard: the aggregation engine over the critiques of a stage 2 *)
(* and the aggregate list Stage2 renders (Stage2.jsx).                     *)
(***************************************************************************)
\* critiques of a stage 2
MaxCritiques == 3

\* the map of a turn in which every council model answered
AggMap == LabelToModel(Council)

\* a parsed ranking may name a label more than once
MaxRankLen == Cardinality(DOMAIN AggMap) + 1

ParsedRankings == UNION {[1..n -> DOMAIN AggMap] : n \in 0..MaxRankLen}

\* agg.average_rank.toFixed(2), in hundredths: the nearest one, the larger
\* when two are as near
ToFixed2(q) == (200 * q.num + q.den) \div (2 * q.den)

\* the text of the council's identifiers: m1 is written provider/name, m2
\* is a bare name
Spelled(model) == IF model = "m1" THEN <<"o", "/", "m1">> ELSE <<model>>

\* aggregateRankings && aggregateRankings.length > 0 &&
\*   aggregateRankings.map((agg, index) => ...): the rows of the list, each
\* with #{index + 1}, agg.model.split('/')[1] || agg.model, the average and
\* the votes
AggregateRows(aggregateRankings) ==
  IF IsNull(aggregateRankings) \/ Len(Val(aggregateRankings)) = 0 THEN <<>>
  ELSE [index \in 1..Len(Val(aggregateRankings)) |->
          LET agg == Val(aggregateRankings)[index]
          IN [position |-> index, model |-> ShortName(Spelled(agg.model)),
              avg |-> ToFixed2(agg.average_rank), votes |-> agg.rankings_count]]

InitAgg ==
  /\ critiques = <<>>
  /\ leaderboard = Null
  /\ shownAggregate = Null
  /\ recomputed = Null
  /\ AppIdle
  /\ TextIdle
  /\ ComposerIdle
  /\ SettingsIdle

\* a critique arrives and the rank parser gives its ranking
ParseCritique ==
  /\ IsNull(leaderboard)
  /\ Len(critiques) < MaxCritiques
  /\ \E r \in ParsedRankings : critiques' = Append(critiques, r)
  /\ UNCHANGED <<leaderboard, shownAggregate, recomputed, appVars, textVars,
                 composerVars, settingsVars>>

\* stage 2 ends: the leaderboard of the critiques that were parsed
Aggregate ==
  /\ IsNull(leaderboard)
  /\ leaderboard' =
       Some(AggregateRankings(SelectSeq(critiques, LAMBDA r : r # <<>>), AggMap))
  /\ UNCHANGED <<critiques, shownAggregate, recomputed, appVars, textVars,
                 composerVars, settingsVars>>

\* Stage2 renders the aggregate list
RenderAggregate ==
  /\ ~IsNull(leaderboard)
  /\ IsNull(shownAggregate)
  /\ shownAggregate' = Some(AggregateRows(leaderboard))
  /\ UNCHANGED <<critiques, leaderboard, recomputed, appVars, textVars,
                 composerVars, settingsVars>>

\* the leaderboard computed again from the same critiques
Recompute ==
  /\ ~IsNull(shownAggregate)
  /\ IsNull(recomputed)
  /\ recomputed' =
       Some(AggregateRankings(SelectSeq(critiques, LAMBDA r : r # <<>>), AggMap))
  /\ UNCHANGED <<critiques, leaderboard, shownAggregate, appVars, textVars,
                 composerVars, settingsVars>>

NextAgg ==
  \/ ParseCritique
  \/ Aggregate
  \/ RenderAggregate
  \/ Recompute

SpecAgg == InitAgg /\ [][NextAgg]_vars

\* the (ranking, position) pairs at which the critiques hold a label
Occurrences(label) ==
  {p \in (1..Len(critiques)) \X (1..MaxRankLen) :
     p[2] <= Len(critiques[p[1]]) /\ critiques[p[1]][p[2]] = label}

RECURSIVE SumPositions(_)
SumPositions(P) ==
  IF P = {} THEN 0
  ELSE LET p == CHOOSE q \in P : TRUE IN p[2] + SumPositions(P \ {p})

EntriesFor(model) ==
  {i \in 1..Len(Val(leaderboard)) : Val(leaderboard)[i].model = model}

\* C11: every model whose label is in at least one parsed ranking has one
\* leaderboard entry, with rankings_count the number of rankings that hold
\* its label and average_rank the sum of its positions in them divided by
\* that number; a model in no ranking has no entry; computing the leaderboard
\* again from the same rankings gives the same leaderboard.
C11_Aggregation ==
  ~IsNull(leaderboard) =>
    /\ \A l \in DOMAIN AggMap :
         LET n == Cardinality({p[1] : p \in Occurrences(l)})
         IN IF n = 0 THEN EntriesFor(AggMap[l]) = {}
            ELSE /\ Cardinality(EntriesFor(AggMap[l])) = 1
                 /\ \A i \in EntriesFor(AggMap[l]) :
                      LET e == Val(leaderboard)[i]
                      IN /\ e.rankings_count = n
                         /\ e.average_rank.num * n
                              = SumPositions(Occurrences(l)) * e.average_rank.den
    /\ ~IsNull(recomputed) => recomputed = leaderboard

\* a model ranked at positions 1, 3 and 2: average 2.00 with 3 votes, and
\* the other model, below it, is on the leaderboard too
C11_Witness ==
  /\ ~IsNull(recomputed)
  /\ Len(critiques) = 3
  /\ PositionsOf(critiques[1], "Response A") = {1}
  /\ PositionsOf(critiques[2], "Response A") = {3}
  /\ PositionsOf(critiques[3], "Response A") = {2}
  /\ \E i \in 1..Len(Val(shownAggregate)) :
       /\ Val(shownAggregate)[i].model = <<"m1">>
       /\ Val(shownAggregate)[i].avg = 200
       /\ Val(shownAggregate)[i].votes = 3

(***************************************************************************)
(* The Settings editor (Settings.jsx): the inline panel and the modal.  A  *)
(* model identifier, like the text of the input, is a sequence of          *)
(* characters.  The state at the start is the one after the mount effect:  *)
(* api.getConfig is in flight.                                             *)
(***************************************************************************)
\* longest text of the add-model input
MaxInputLen == 3

\* longest council list
MaxCouncil == 3

Chars == {" ", "a"}

InputTexts == UNION {[1..n -> Chars] : n \in 0..MaxInputLen}

RECURSIVE TrimStart(_)
TrimStart(t) == IF t # <<>> /\ Head(t) = " " THEN TrimStart(Tail(t)) ELSE t

RECURSIVE TrimEnd(_)
TrimEnd(t) ==
  IF t # <<>> /\ t[Len(t)] = " " THEN TrimEnd(SubSeq(t, 1, Len(t) - 1)) ELSE t

\* String.prototype.trim
Trim(t) == TrimEnd(TrimStart(t))

\* the identifiers a council can hold: the texts trim leaves as they are
ModelIds == {t \in InputTexts : t # <<>> /\ Trim(t) = t}

\* Array.prototype.includes
Includes(list, x) == x \in Range(list)

\* the council lists of a configuration: any identifiers, the same one more
\* than once too (the back end does not look at them)
CouncilLists(n) == UNION {[1..k -> ModelIds] : k \in 0..n}

RequiredError == "At least one council model is required"

LoadError == "Failed to load configuration: x"

SaveError == "Failed to save configuration: x"

\* the configurations the back end answers, to api.getConfig and to
\* api.updateConfig: a council of one model or more and a chairman, which
\* need not be a council model
ServerConfigs ==
  {[council_models |-> models, chairman_model |-> Some(chairman)] :
     models \in CouncilLists(MaxCouncil) \ {<<>>}, chairman \in ModelIds}

\* the call of a handler: its name, its argument and the chairman it found
Called(name, arg) ==
  Some([name |-> name, arg |-> arg, chairman |-> Val(config).chairman_model])

\* the state after the component has mounted and its mount effect has called
\* loadConfig: api.getConfig is in flight
InitSettings ==
  /\ variant \in {"panel", "modal"}
  /\ config = Null
  /\ newModel = <<>>
  /\ error = Null
  /\ loading = TRUE
  /\ saving = FALSE
  /\ lastCall = Null
  /\ AppIdle
  /\ TextIdle
  /\ ComposerIdle
  /\ AggIdle

\* the editor (the lists, the inputs and their buttons) is rendered
EditorRendered == ~loading /\ ~IsNull(config)

\* loadConfig after its await: setConfig(data); setError(null); finally
\* setLoading(false)
LoadConfigResolve ==
  /\ loading
  /\ \E data \in ServerConfigs : config' = Some(data)
  /\ error' = Null
  /\ loading' = FALSE
  /\ lastCall' = Null
  /\ UNCHANGED <<variant, newModel, saving, appVars, textVars,
                 composerVars, aggVars>>

\* loadConfig, its catch: api.getConfig rejects
LoadConfigRejects ==
  /\ loading
  /\ error' = Some(LoadError)
  /\ loading' = FALSE
  /\ lastCall' = Null
  /\ UNCHANGED <<variant, config, newModel, saving, appVars,
                 textVars, composerVars, aggVars>>

\* Refresh and Retry of the panel: loadConfig up to its await
LoadConfig ==
  /\ variant = "panel"
  /\ ~loading
  /\ ~saving
  /\ loading' = TRUE
  /\ lastCall' = Null
  /\ UNCHANGED <<variant, config, newModel, error, saving, appVars, textVars, composerVars, aggVars>>

\* handleSave of both components up to its await: setSaving(true);
\* setError(null); api.updateConfig(config) is called
HandleSave ==
  /\ EditorRendered
  /\ ~saving
  /\ saving' = TRUE
  /\ error' = Null
  /\ lastCall' = Null
  /\ UNCHANGED <<variant, config, newModel, loading, appVars, textVars,
                 composerVars, aggVars>>

\* handleSave of the panel after its await: setConfig(updated), updated the
\* configuration the back end answers (the one it was given, or any other it
\* makes of it); finally setSaving(false)
SaveResolve ==
  /\ variant = "panel"
  /\ saving
  /\ \E updated \in ServerConfigs : config' = Some(updated)
  /\ saving' = FALSE
  /\ lastCall' = Null
  /\ UNCHANGED <<variant, newModel, error, loading, appVars, textVars,
                 composerVars, aggVars>>

\* handleSave of the modal after its await: the answer is not used
SaveResolveModal ==
  /\ variant = "modal"
  /\ saving
  /\ saving' = FALSE
  /\ lastCall' = Null
  /\ UNCHANGED <<variant, config, newModel, error, loading, appVars,
                 textVars, composerVars, aggVars>>

\* handleSave, its catch: api.updateConfig rejects
SaveRejects ==
  /\ saving
  /\ error' = Some(SaveError)
  /\ saving' = FALSE
  /\ lastCall' = Null
  /\ UNCHANGED <<variant, config, newModel, loading, appVars, textVars,
                 composerVars, aggVars>>

\* onChange of the add-model input: setNewModel(e.target.value)
SetNewModel ==
  /\ EditorRendered
  /\ \E t \in InputTexts :
       /\ newModel' = t
       /\ lastCall' = Called("setNewModel", t)
  /\ UNCHANGED <<variant, config, error, loading, saving, appVars, textVars, composerVars, aggVars>>

\* (mutant) the trimmed text is appended also when the list holds it
AddModelAgain(c, trimmed) ==
  IF trimmed # <<>>
  THEN [c EXCEPT !.council_models = Append(@, trimmed)]
  ELSE c

\* the configuration an add leaves
AddModel(c, trimmed) ==
  IF trimmed # <<>> /\ ~Includes(c.council_models, trimmed)
  THEN [c EXCEPT !.council_models = Append(@, trimmed)]
  ELSE c

\* handleAddModel of the panel
HandleAddModel ==
  /\ variant = "panel"
  /\ EditorRendered
  /\ LET trimmed == Trim(newModel)
         next    == AddModel(Val(config), trimmed)
     IN /\ Len(next.council_models) <= MaxCouncil
        /\ config' = Some(next)
        /\ newModel' = IF next = Val(config) THEN newModel ELSE <<>>
  /\ lastCall' = Called("handleAddModel", newModel)
  /\ UNCHANGED <<variant, error, loading, saving, appVars, textVars, composerVars, aggVars>>

\* handleAddModel of the modal
HandleAddModelModal ==
  /\ variant = "modal"
  /\ EditorRendered
  /\ LET next == AddModel(Val(config), Trim(newModel))
     IN /\ Len(next.council_models) <= MaxCouncil
        /\ config' = Some(next)
        /\ newModel' = IF next = Val(config) THEN newModel ELSE <<>>
  /\ lastCall' = Called("handleAddModel", newModel)
  /\ UNCHANGED <<variant, error, loading, saving, appVars, textVars, composerVars, aggVars>>

\* list[0]: undefined (Null) when the list is empty
First(list) == IF list = <<>> THEN Null ELSE Some(list[1])

\* handleRemoveModel(model) of the panel; model is one of the list's rows
HandleRemoveModel ==
  /\ variant = "panel"
  /\ EditorRendered
  /\ \E model \in Range(Val(config).council_models) :
       /\ lastCall' = Called("handleRemoveModel", model)
       /\ IF Len(Val(config).council_models) > 1
          THEN LET nextModels == SelectSeq(Val(config).council_models,
                                           LAMBDA m : m # model)
               IN /\ config' =
                       Some([council_models |-> nextModels,
                             chairman_model |->
                               IF Val(config).chairman_model = Some(model)
                               THEN First(nextModels)
                               ELSE Val(config).chairman_model])
                  /\ error' = error
          ELSE /\ error' = Some(RequiredError)
               /\ config' = config
  /\ UNCHANGED <<variant, newModel, loading, saving, appVars, textVars, composerVars, aggVars>>

\* handleRemoveModel(model) of the modal
HandleRemoveModelModal ==
  /\ variant = "modal"
  /\ EditorRendered
  /\ \E model \in Range(Val(config).council_models) :
       /\ lastCall' = Called("handleRemoveModel", model)
       /\ IF Len(Val(config).council_models) > 1
          THEN /\ config' =
                    Some([council_models |->
                            SelectSeq(Val(config).council_models,
                                      LAMBDA m : m # model),
                          chairman_model |->
                            IF Val(config).chairman_model = Some(model)
                            THEN First(Val(config).council_models)
                            ELSE Val(config).chairman_model])
               /\ error' = error
          ELSE /\ error' = Some(RequiredError)
               /\ config' = config
  /\ UNCHANGED <<variant, newModel, loading, saving, appVars, textVars, composerVars, aggVars>>

\* onChange of the chairman select, in both components: one of its options,
\* which are the council models
SelectChairman ==
  /\ EditorRendered
  /\ \E model \in Range(Val(config).council_models) :
       /\ config' = Some([Val(config) EXCEPT !.chairman_model = Some(model)])
       /\ lastCall' = Called("selectChairman", model)
  /\ UNCHANGED <<variant, newModel, error, loading, saving, appVars,
                 textVars, composerVars, aggVars>>

NextSettings ==
  \/ LoadConfigResolve
  \/ LoadConfigRejects
  \/ LoadConfig
  \/ HandleSave
  \/ SaveResolve
  \/ SaveResolveModal
  \/ SaveRejects
  \/ SetNewModel
  \/ HandleAddModel
  \/ HandleAddModelModal
  \/ HandleRemoveModel
  \/ HandleRemoveModelModal
  \/ SelectChairman

SpecSettings == InitSettings /\ [][NextSettings]_vars

CouncilModels == Val(config).council_models

\* the step is a call of handleRemoveModel
Removes ==
  /\ lastCall' # lastCall
  /\ ~IsNull(lastCall')
  /\ Val(lastCall').name = "handleRemoveModel"

\* C14: the council list of the editor is never empty, and a call of
\* handleRemoveModel on a list of one model leaves the configuration as it
\* was and sets the error 'At least one council model is required'.
C14_CouncilNeverEmpty ==
  /\ [](~IsNull(config) => Len(CouncilModels) >= 1)
  /\ [][(Removes /\ Len(CouncilModels) = 1) =>
          /\ config' = config
          /\ error' = Some(RequiredError)]_vars

ChairmanInCouncil ==
  /\ ~IsNull(config)
  /\ ~IsNull(Val(config).chairman_model)
  /\ Val(Val(config).chairman_model) \in Range(CouncilModels)

\* the step is a call of handleRemoveModel that removed the chairman
RemovesChairman ==
  /\ Removes
  /\ config' # config
  /\ Val(config).chairman_model = Some(Val(lastCall').arg)

\* the step is a call of a handler of the editor: no call of the api is made
\* or settles in it
Edits == UNCHANGED <<loading, saving>>

\* C15: in the panel, a chairman that is a council model is one after every
\* add, remove and chairman select, and a remove of the chairman makes the
\* first model of the list that remains the chairman.
C15_PanelChairmanStaysMember ==
  /\ [][(variant = "panel" /\ ChairmanInCouncil /\ Edits)
          => ChairmanInCouncil']_vars
  /\ [][(variant = "panel" /\ ChairmanInCouncil /\ RemovesChairman) =>
          Val(config').chairman_model = First(Val(config').council_models)]_vars

\* C16: in the modal, a remove of the model that is the chairman makes a
\* model of the list that remains the chairman, wherever in the list the
\* removed model was.
C16_ModalChairmanReassigned ==
  [][(variant = "modal" /\ RemovesChairman) => ChairmanInCouncil']_vars

\* the step is a call of handleAddModel
Adds ==
  /\ lastCall' # lastCall
  /\ ~IsNull(lastCall')
  /\ Val(lastCall').name = "handleAddModel"

\* the council list holds no identifier twice
DuplicateFree == ~IsNull(config) /\ NoDup(CouncilModels)

\* C19: a council list that holds no identifier twice holds none twice
\* after every call of a handler of the editor, the list never holds an
\* identifier that is empty or white space only, and a call of
\* handleAddModel whose trimmed text is empty or already in the list leaves
\* the configuration as it was.
C19_NoDuplicateModels ==
  /\ [][(DuplicateFree /\ Edits) => DuplicateFree']_vars
  /\ [](~IsNull(config) =>
          \A i \in 1..Len(CouncilModels) : Trim(CouncilModels[i]) # <<>>)
  /\ [][(Adds /\ (Trim(newModel) = <<>> \/ Includes(CouncilModels, Trim(newModel))))
          => config' = config]_vars

\* the text typed, with white space around it, names a model of the list:
\* the call left the list and the text as they were
C19_Witness ==
  /\ ~IsNull(lastCall)
  /\ Val(lastCall).name = "handleAddModel"
  /\ Val(lastCall).arg = newModel
  /\ Trim(newModel) # newModel
  /\ Includes(CouncilModels, Trim(newModel))
  /\ Len(CouncilModels) = 2
  /\ DuplicateFree

====
